---- MODULE Spec2Model ----
(***************************************************************************)
(* SPECK128/128 (src/src/lib.rs) and its ECB capability                    *)
(* (src/src/cipher_modes.rs).                                              *)
(*                                                                         *)
(* A u64 is a sequence of 16 hexadecimal digits and a u128 one of 32, the  *)
(* least significant digit first, so every rotation, shift, wrapping       *)
(* addition and XOR works at the full width of the Rust integer types.     *)
(* The loops of key_schedule, encrypt and decrypt advance one iteration    *)
(* per step.                                                               *)
(***************************************************************************)
EXTENDS Integers, Sequences, FiniteSets, TLC

VARIABLES speck, key, ctor, call, rt

vars == <<speck, key, ctor, call, rt>>

(* ---------------- program constants ---------------- *)

ALPHA == 8

BETA == 3

ROUNDS == 32

U64Bits == 64

U128Bits == 128

(* ---------------- bounds ---------------- *)

MaxCalls == 2

(* ---------------- fixed-width integers ---------------- *)

(* the w low hexadecimal digits of n, least significant first *)
RECURSIVE DigitsOf(_, _)
DigitsOf(n, w) ==
    IF w = 0 THEN <<>> ELSE <<n % 16>> \o DigitsOf(n \div 16, w - 1)

Zeros(bits) == DigitsOf(0, bits \div 4)

(* a u64 and a u128 written as 16-bit groups, most significant first *)
U64(a, b, c, d) ==
    DigitsOf(d, 4) \o DigitsOf(c, 4) \o DigitsOf(b, 4) \o DigitsOf(a, 4)

U128(a, b, c, d, e, f, g, h) == U64(e, f, g, h) \o U64(a, b, c, d)

(* v moved up by r < 4 bits, the bits of `top` entering at the bottom *)
BitsUp(v, r, top) ==
    SubSeq([j \in 1..Len(v) |->
               ((v[j] * (2^r)) % 16)
               + ((IF j = 1 THEN top ELSE v[j - 1]) \div (2^(4 - r)))],
           1, Len(v))

(* v moved down by r < 4 bits, the bits of `bottom` entering at the top *)
BitsDown(v, r, bottom) ==
    SubSeq([j \in 1..Len(v) |->
               (v[j] \div (2^r))
               + (((IF j = Len(v) THEN bottom ELSE v[j + 1]) % (2^r)) * (2^(4 - r)))],
           1, Len(v))

rotate_right(v, n) ==
    LET q == n \div 4
        d == SubSeq(v, q + 1, Len(v)) \o SubSeq(v, 1, q)
    IN  BitsDown(d, n % 4, d[1])

rotate_left(v, n) ==
    LET q == n \div 4
        d == SubSeq(v, Len(v) - q + 1, Len(v)) \o SubSeq(v, 1, Len(v) - q)
    IN  BitsUp(d, n % 4, d[Len(v)])

(* bitwise operations on one hexadecimal digit, bit by bit *)
xor_digit(a, b) ==
      ((a + b) % 2)
    + ((((a \div 2) + (b \div 2)) % 2) * 2)
    + ((((a \div 4) + (b \div 4)) % 2) * 4)
    + ((((a \div 8) + (b \div 8)) % 2) * 8)

(* a | b = a + b - (a & b), and a + b = (a ^ b) + 2 * (a & b) *)
or_digit(a, b) == (a + b) - (((a + b) - xor_digit(a, b)) \div 2)

xor(a, b) == SubSeq([j \in 1..Len(a) |-> xor_digit(a[j], b[j])], 1, Len(a))

bitor(a, b) == SubSeq([j \in 1..Len(a) |-> or_digit(a[j], b[j])], 1, Len(a))

RECURSIVE AddFrom(_, _, _, _)
AddFrom(a, b, j, carry) ==
    IF j > Len(a) THEN <<>>
    ELSE <<((a[j] + b[j]) + carry) % 16>>
         \o AddFrom(a, b, j + 1, ((a[j] + b[j]) + carry) \div 16)

(* mutant: an addition that saturates at the largest u64 *)
saturating_add(a, b) ==
    IF AddFrom(a \o <<0>>, b \o <<0>>, 1, 0)[Len(a) + 1] = 0
    THEN AddFrom(a, b, 1, 0)
    ELSE [j \in 1..Len(a) |-> 15]

(* the carry out of the top digit is dropped *)
wrapping_add(a, b) == AddFrom(a, b, 1, 0)

RECURSIVE SubFrom(_, _, _, _)
SubFrom(a, b, j, borrow) ==
    IF j > Len(a) THEN <<>>
    ELSE <<(((a[j] + 16) - b[j]) - borrow) % 16>>
         \o SubFrom(a, b, j + 1, IF (a[j] - b[j]) - borrow < 0 THEN 1 ELSE 0)

(* the borrow out of the top digit is dropped *)
wrapping_sub(a, b) == SubFrom(a, b, 1, 0)

(* v >> n and v << n on a u128 *)
shr128(v, n) ==
    LET q == n \div 4
    IN  BitsDown(SubSeq(v, q + 1, Len(v)) \o Zeros(4 * q), n % 4, 0)

shl128(v, n) ==
    LET q == n \div 4
    IN  BitsUp(Zeros(4 * q) \o SubSeq(v, 1, Len(v) - q), n % 4, 0)

(* v as u64 truncates, v as u128 extends with zeros *)
as_u64(v) == SubSeq(v, 1, U64Bits \div 4)

as_u128(v) == v \o Zeros(U128Bits - (4 * Len(v)))

(* ---------------- round engine ---------------- *)

(* a half-block pair p = <<x, y>> *)
round(p, k) ==
    LET x == xor(wrapping_add(rotate_right(p[1], ALPHA), p[2]), k)
        y == xor(rotate_left(p[2], BETA), x)
    IN  <<x, y>>

(* mutant: the first rotation of the inverse goes the wrong way *)
inv_round_rotl(p, k) ==
    LET y == rotate_left(xor(p[2], p[1]), BETA)
        x == rotate_left(wrapping_sub(xor(p[1], k), y), ALPHA)
    IN  <<x, y>>

inv_round(p, k) ==
    LET y == rotate_right(xor(p[2], p[1]), BETA)
        x == rotate_left(wrapping_sub(xor(p[1], k), y), ALPHA)
    IN  <<x, y>>

(* ---------------- sampled inputs ---------------- *)

KatKey == U128(\H0f0e, \H0d0c, \H0b0a, \H0908, \H0706, \H0504, \H0302, \H0100)

KatPlaintext == U128(\H6c61, \H7669, \H7571, \H6520, \H7469, \H2065, \H6461, \H6d20)

KatCiphertext == U128(\Ha65d, \H9851, \H7978, \H3265, \H7860, \Hfedf, \H5c57, \H0d18)

Zero64 == Zeros(U64Bits)

Ones64 == U64(\Hffff, \Hffff, \Hffff, \Hffff)

Alt64 == U64(\Haaaa, \Haaaa, \Haaaa, \Haaaa)

Top64 == U64(\H8000, 0, 0, 0)

Words == {Zero64, Ones64, Alt64, Top64, as_u64(KatKey), as_u64(KatPlaintext)}

Keys == {KatKey, Ones64 \o Zero64}

Blocks == {KatPlaintext, KatCiphertext}

ManyKeys ==
    Keys \cup {Zero64 \o Zero64, Zero64 \o Ones64, Ones64 \o Ones64,
               as_u64(KatKey) \o Top64, Alt64 \o as_u64(KatKey)}

Insts == {1, 2}

Callers == {1, 2}

(* ---------------- Speck::new and key_schedule ---------------- *)

NoFrame == [pc |-> "idle"]

(* mutant: both halves taken from the low 64 bits of the key *)
NewLowTwice(inst, k) ==
    /\ ctor.pc = "idle"
    /\ speck[inst] = <<>>
    /\ key' = [key EXCEPT ![inst] = k]
    /\ ctor' = [pc |-> "key_schedule", inst |-> inst,
                k1 |-> as_u64(k), k2 |-> as_u64(k), i |-> 0,
                schedule |-> [j \in 1..ROUNDS |-> Zero64]]
    /\ UNCHANGED <<speck, call, rt>>

(* Speck::new: split the key and enter key_schedule with schedule = [0; ROUNDS] *)
New(inst, k) ==
    /\ ctor.pc = "idle"
    /\ speck[inst] = <<>>
    /\ key' = [key EXCEPT ![inst] = k]
    /\ ctor' = [pc |-> "key_schedule", inst |-> inst,
                k1 |-> as_u64(shr128(k, 64)), k2 |-> as_u64(k), i |-> 0,
                schedule |-> [j \in 1..ROUNDS |-> Zero64]]
    /\ UNCHANGED <<speck, call, rt>>

(* mutant: the round key is recorded after the update instead of before *)
key_schedule_late(f) ==
    LET p == round(<<f.k1, f.k2>>, DigitsOf(f.i, U64Bits \div 4))
    IN  [f EXCEPT !.schedule[f.i + 1] = p[2],
                  !.k1 = p[1], !.k2 = p[2], !.i = f.i + 1]

(* mutant: the round index fed to the round function starts at 1 *)
key_schedule_from_one(f) ==
    LET p == round(<<f.k1, f.k2>>, DigitsOf(f.i + 1, U64Bits \div 4))
    IN  [f EXCEPT !.schedule[f.i + 1] = f.k2,
                  !.k1 = p[1], !.k2 = p[2], !.i = f.i + 1]

(* one iteration of the loop of key_schedule; schedule[i] is element i + 1 *)
key_schedule(f) ==
    LET p == round(<<f.k1, f.k2>>, DigitsOf(f.i, U64Bits \div 4))
    IN  [f EXCEPT !.schedule[f.i + 1] = f.k2,
                  !.k1 = p[1], !.k2 = p[2], !.i = f.i + 1]

KeyScheduleStep ==
    /\ ctor.pc = "key_schedule"
    /\ ctor.i < ROUNDS
    /\ ctor' = key_schedule(ctor)
    /\ UNCHANGED <<speck, key, call, rt>>

(* the loop is over: Speck(schedule) becomes the instance *)
NewReturn ==
    /\ ctor.pc = "key_schedule"
    /\ ctor.i = ROUNDS
    /\ speck' = [speck EXCEPT ![ctor.inst] = ctor.schedule]
    /\ ctor' = NoFrame
    /\ UNCHANGED <<key, call, rt>>

(* ---------------- encrypt, decrypt and the ECB capability ---------------- *)

InherentMethods == {"Speck::encrypt", "Speck::decrypt"}

TraitMethods == {"ECB::encrypt", "ECB::decrypt"}

(* mutant: each trait method calls the opposite inherent method *)
impl_ECB_swapped(m) ==
    CASE m = "ECB::encrypt" -> "Speck::decrypt"
      [] m = "ECB::decrypt" -> "Speck::encrypt"

(* impl ECB for Speck: the method each trait method calls on self *)
impl_ECB(m) ==
    CASE m = "ECB::encrypt" -> "Speck::encrypt"
      [] m = "ECB::decrypt" -> "Speck::decrypt"

(* mutant: decrypt walks the schedule forwards, like encrypt *)
round_key_forwards(m, s, i) == s[i + 1]

(* mutant: decrypt walks the schedule backwards but skips its last entry *)
round_key_short(m, s, i) ==
    IF m = "Speck::encrypt" THEN s[i + 1]
    ELSE IF i = 0 THEN s[ROUNDS - 1] ELSE s[ROUNDS - i]

(* the round key of iteration i (0-based): &self.0 or self.0.iter().rev() *)
round_key(m, s, i) ==
    IF m = "Speck::encrypt" THEN s[i + 1] ELSE s[ROUNDS - i]

(* mutant: the halves are put back the wrong way round *)
recombine_swapped(chunk_1, chunk_2) ==
    bitor(as_u128(chunk_1), shl128(as_u128(chunk_2), 64))

(* chunk_2 as u128 | (chunk_1 as u128) << 64 *)
recombine(chunk_1, chunk_2) ==
    bitor(as_u128(chunk_2), shl128(as_u128(chunk_1), 64))

Done(c) == call[c].pc = "done"

Results == {call[c].result : c \in {d \in DOMAIN call : Done(d)}}

(* a caller invokes method m of a constructed instance on block b *)
Call(c, m, b) ==
    /\ call[c].pc = "idle"
    /\ \E inst \in Insts :
          /\ speck[inst] # <<>>
          /\ call' = [call EXCEPT ![c] =
                        [pc |-> "entry", inst |-> inst, entry |-> m,
                         method |-> m, input |-> b, forwards |-> 0,
                         chunk_1 |-> <<>>, chunk_2 |-> <<>>, i |-> 0,
                         result |-> <<>>]]
    /\ UNCHANGED <<speck, key, ctor, rt>>

(* the body of a trait method: self.encrypt(..) or self.decrypt(..) *)
Forward(c) ==
    /\ call[c].pc = "entry"
    /\ call[c].method \in TraitMethods
    /\ call' = [call EXCEPT ![c].method = impl_ECB(call[c].method),
                            ![c].forwards = call[c].forwards + 1]
    /\ UNCHANGED <<speck, key, ctor, rt>>

(* split the u128 block into u64 chunks *)
Split(c) ==
    /\ call[c].pc = "entry"
    /\ call[c].method \in InherentMethods
    /\ call' = [call EXCEPT ![c].pc = "loop",
                            ![c].chunk_1 = as_u64(shr128(call[c].input, 64)),
                            ![c].chunk_2 = as_u64(call[c].input)]
    /\ UNCHANGED <<speck, key, ctor, rt>>

(* mutant: the loop consumes the schedule, clearing each round key it used *)
RoundStepConsuming(c) ==
    /\ call[c].pc = "loop"
    /\ call[c].i < ROUNDS
    /\ LET f == call[c]
           k == round_key(f.method, speck[f.inst], f.i)
           p == IF f.method = "Speck::encrypt"
                THEN round(<<f.chunk_1, f.chunk_2>>, k)
                ELSE inv_round(<<f.chunk_1, f.chunk_2>>, k)
           n == IF f.method = "Speck::encrypt" THEN f.i + 1 ELSE ROUNDS - f.i
       IN  /\ call' = [call EXCEPT ![c].chunk_1 = p[1], ![c].chunk_2 = p[2],
                                   ![c].i = f.i + 1]
           /\ speck' = [speck EXCEPT ![f.inst][n] = Zero64]
    /\ UNCHANGED <<key, ctor, rt>>

(* one iteration of the loop over the round keys *)
RoundStep(c) ==
    /\ call[c].pc = "loop"
    /\ call[c].i < ROUNDS
    /\ LET f == call[c]
           k == round_key(f.method, speck[f.inst], f.i)
           p == IF f.method = "Speck::encrypt"
                THEN round(<<f.chunk_1, f.chunk_2>>, k)
                ELSE inv_round(<<f.chunk_1, f.chunk_2>>, k)
       IN  call' = [call EXCEPT ![c].chunk_1 = p[1], ![c].chunk_2 = p[2],
                                ![c].i = f.i + 1]
    /\ UNCHANGED <<speck, key, ctor, rt>>

(* the inherent method returns the recombined block *)
Return(c) ==
    /\ call[c].pc = "loop"
    /\ call[c].i = ROUNDS
    /\ call' = [call EXCEPT ![c].pc = IF call[c].forwards = 0 THEN "done" ELSE "ecb",
                            ![c].result = recombine(call[c].chunk_1, call[c].chunk_2)]
    /\ UNCHANGED <<speck, key, ctor, rt>>

(* the trait method returns what the method it called returned *)
ECBReturn(c) ==
    /\ call[c].pc = "ecb"
    /\ call' = [call EXCEPT ![c].pc = "done"]
    /\ UNCHANGED <<speck, key, ctor, rt>>

(* ---------------- round function harness ---------------- *)

ApplyRound ==
    /\ rt.pc = "start"
    /\ LET p == round(<<rt.x, rt.y>>, rt.k)
       IN  rt' = [rt EXCEPT !.pc = "rounded", !.x = p[1], !.y = p[2]]
    /\ UNCHANGED <<speck, key, ctor, call>>

ApplyInvRound ==
    /\ rt.pc = "rounded"
    /\ LET p == inv_round(<<rt.x, rt.y>>, rt.k)
       IN  rt' = [rt EXCEPT !.pc = "inverted", !.x = p[1], !.y = p[2]]
    /\ UNCHANGED <<speck, key, ctor, call>>

(* ---------------- specifications ---------------- *)

InitObjects ==
    /\ speck = [i \in Insts |-> <<>>]
    /\ key = [i \in Insts |-> <<>>]
    /\ ctor = NoFrame

Init ==
    /\ InitObjects
    /\ call = [c \in 1..MaxCalls |-> NoFrame]
    /\ rt = NoFrame

InitRound ==
    /\ InitObjects
    /\ call = [c \in 1..MaxCalls |-> NoFrame]
    /\ \E x \in Words, y \in Words, k \in Words :
          rt = [pc |-> "start", x |-> x, y |-> y, k |-> k, x0 |-> x, y0 |-> y]

NextRound ==
    \/ ApplyRound
    \/ ApplyInvRound

SpecRound == InitRound /\ [][NextRound]_vars

(* two instances built one after the other *)
NewAny ==
    \E inst \in Insts, k \in ManyKeys :
        /\ \A j \in Insts : j < inst => speck[j] # <<>>
        /\ New(inst, k)

NextKeys ==
    \/ NewAny
    \/ KeyScheduleStep
    \/ NewReturn

SpecKeys == Init /\ [][NextKeys]_vars

(* one caller, its calls one after the other; a block is a sample or an *)
(* earlier call's result *)
NewOne == \E k \in Keys : New(1, k)

CallNext ==
    \E c \in 1..MaxCalls, m \in InherentMethods \cup TraitMethods,
       b \in Blocks \cup Results :
        /\ c > 1 => Done(c - 1)
        /\ Call(c, m, b)

ForwardAny == \E c \in DOMAIN call : Forward(c)

SplitAny == \E c \in DOMAIN call : Split(c)

RoundStepAny == \E c \in DOMAIN call : RoundStep(c)

ReturnAny == \E c \in DOMAIN call : Return(c)

ECBReturnAny == \E c \in DOMAIN call : ECBReturn(c)

Next ==
    \/ NewOne
    \/ KeyScheduleStep
    \/ NewReturn
    \/ CallNext
    \/ ForwardAny
    \/ SplitAny
    \/ RoundStepAny
    \/ ReturnAny
    \/ ECBReturnAny

Spec == Init /\ [][Next]_vars

(* two callers sharing one instance, their steps interleaved *)
InitConc ==
    /\ InitObjects
    /\ call = [c \in Callers |-> NoFrame]
    /\ rt = NoFrame

NewKat == New(1, KatKey)

CallAny ==
    \E c \in Callers, m \in InherentMethods \cup TraitMethods,
       b \in {KatPlaintext} \cup Results :
        Call(c, m, b)

NextConc ==
    \/ NewKat
    \/ KeyScheduleStep
    \/ NewReturn
    \/ CallAny
    \/ ForwardAny
    \/ SplitAny
    \/ RoundStepAny
    \/ ReturnAny
    \/ ECBReturnAny

SpecConc == InitConc /\ [][NextConc]_vars

(* ---------------- properties ---------------- *)

IsWord(v) == Len(v) = 16 /\ \A j \in 1..16 : v[j] \in 0..15

(* bit i of a u64, i in 0..63, and the u64 as a function of its bits *)
BitsOfWord(v) == [i \in 0..63 |-> (v[(i \div 4) + 1] \div (2^(i % 4))) % 2]

(* the carry into each bit position of f + g; position 64 is the carry out *)
CarryOf(f, g) ==
    LET c[i \in 0..64] ==
            IF i = 0 THEN 0 ELSE ((f[i - 1] + g[i - 1]) + c[i - 1]) \div 2
    IN  c

SumMod64(f, g) ==
    LET c == CarryOf(f, g)
    IN  [i \in 0..63 |-> ((f[i] + g[i]) + c[i]) % 2]

RotR(f, n) == [i \in 0..63 |-> f[(i + n) % 64]]

RotL(f, n) == [i \in 0..63 |-> f[((i + 64) - n) % 64]]

XorBits(f, g) == [i \in 0..63 |-> (f[i] + g[i]) % 2]

High64(b) == SubSeq(b, 17, 32)

Low64(b) == SubSeq(b, 1, 16)

(* C1: inv_round after round, with the same k, gives back the original *)
(* pair (x, y), for every sampled x, y and k                            *)
RoundInverts ==
    rt.pc = "inverted" => rt.x = rt.x0 /\ rt.y = rt.y0

RoundInvertsWitness ==
    /\ rt.pc = "inverted"
    /\ rt.x0 = Ones64
    /\ rt.y0 = as_u64(KatPlaintext)
    /\ rt.k = as_u64(KatKey)

(* C8: round gives x' = ((rotate_right(x, 8) + y) mod 2^64) XOR k and    *)
(* y' = rotate_left(y, 3) XOR x', bit for bit, the sum wrapping modulo   *)
(* 2^64, and both results are u64 values                                 *)
RoundFormula ==
    rt.pc = "rounded" =>
          LET x == XorBits(SumMod64(RotR(BitsOfWord(rt.x0), 8), BitsOfWord(rt.y0)),
                           BitsOfWord(rt.k))
              y == XorBits(RotL(BitsOfWord(rt.y0), 3), x)
          IN  /\ IsWord(rt.x) /\ IsWord(rt.y)
              /\ BitsOfWord(rt.x) = x
              /\ BitsOfWord(rt.y) = y

(* a round whose sum overflowed: the carry out of bit 63 is 1 *)
RoundFormulaWitness ==
    /\ rt.pc = "rounded"
    /\ CarryOf(RotR(BitsOfWord(rt.x0), 8), BitsOfWord(rt.y0))[64] = 1
    /\ rt.k = Alt64

(* the pairs (k1, k2) before updates j, j + 1, ..., 31, p being the pair *)
(* before update j; an update is (k1, k2) = round(k1, k2, j)             *)
RECURSIVE KeyStates(_, _)
KeyStates(p, j) ==
    IF j = 32 THEN <<>>
    ELSE <<p>> \o KeyStates(round(p, DigitsOf(j, 16)), j + 1)

Built(inst) == speck[inst] # <<>>

(* C6: the schedule stored by Speck::new(key) has 32 entries, entry i    *)
(* being k2 after i updates (k1, k2) = round(k1, k2, j), j = 0..i-1,     *)
(* from (high 64 bits, low 64 bits) of key; equal keys give equal        *)
(* schedules                                                             *)
ScheduleDerivation ==
    /\ \A inst \in Insts :
          Built(inst) =>
              LET t == KeyStates(<<High64(key[inst]), Low64(key[inst])>>, 0)
              IN  /\ Len(speck[inst]) = 32
                  /\ \A i \in 0..31 : speck[inst][i + 1] = t[i + 1][2]
    /\ \A a, b \in Insts :
          Built(a) /\ Built(b) /\ key[a] = key[b] => speck[a] = speck[b]

ScheduleDerivationWitness ==
    /\ Built(1) /\ Built(2)
    /\ key[1] = KatKey /\ key[2] = KatKey

(* the high half of a key from the first two entries of its schedule *)
HighFromSchedule(s0, s1) ==
    rotate_left(wrapping_sub(xor(s1, rotate_left(s0, 3)), s0), 8)

(* C10: the first two schedule entries determine the key: entry 0 is its *)
(* low half, entries 0 and 1 give its high half, and two instances built *)
(* from distinct keys differ in entry 0 or entry 1                       *)
ScheduleInjective ==
    /\ \A inst \in Insts :
          Built(inst) =>
              /\ speck[inst][1] = Low64(key[inst])
              /\ HighFromSchedule(speck[inst][1], speck[inst][2]) = High64(key[inst])
    /\ \A a, b \in Insts :
          Built(a) /\ Built(b) /\ key[a] # key[b] =>
              speck[a][1] # speck[b][1] \/ speck[a][2] # speck[b][2]

(* two keys with the same low half and different high halves *)
ScheduleInjectiveWitness ==
    /\ Built(1) /\ Built(2)
    /\ Low64(key[1]) = Low64(key[2])
    /\ High64(key[1]) # High64(key[2])
    /\ speck[1][1] = speck[2][1]
    /\ speck[1][2] # speck[2][2]

Raw(c) == call[c].entry \in InherentMethods

(* C2: on one instance, decrypt of the result of encrypt gives back the  *)
(* plaintext, and encrypt of the result of decrypt gives back the        *)
(* ciphertext                                                            *)
CipherInverts ==
    \A a, b \in DOMAIN call :
        (/\ Done(a) /\ Done(b)
         /\ call[a].inst = call[b].inst
         /\ call[a].method # call[b].method
         /\ call[b].input = call[a].result)
            => call[b].result = call[a].input

CipherInvertsWitness ==
    \E a, b \in DOMAIN call :
        /\ Done(a) /\ Done(b) /\ Raw(a) /\ Raw(b)
        /\ key[call[a].inst] # KatKey
        /\ call[a].method = "Speck::decrypt"
        /\ call[b].method = "Speck::encrypt"
        /\ call[b].input = call[a].result
        /\ call[a].input = KatCiphertext

(* C3: under the key 0x0f0e0d0c0b0a09080706050403020100, encrypt takes   *)
(* 0x6c617669757165207469206564616d20 to                                 *)
(* 0xa65d9851797832657860fedf5c570d18 and decrypt takes that ciphertext  *)
(* back to that plaintext                                                *)
KnownAnswer ==
    \A c \in DOMAIN call :
        (Done(c) /\ key[call[c].inst] = KatKey) =>
            /\ (call[c].entry = "Speck::encrypt" /\ call[c].input = KatPlaintext)
                  => call[c].result = KatCiphertext
            /\ (call[c].entry = "Speck::decrypt" /\ call[c].input = KatCiphertext)
                  => call[c].result = KatPlaintext

KnownAnswerWitness ==
    \E a, b \in DOMAIN call :
        /\ Done(a) /\ Done(b)
        /\ key[call[a].inst] = KatKey /\ key[call[b].inst] = KatKey
        /\ call[a].entry = "Speck::encrypt" /\ call[a].input = KatPlaintext
        /\ call[b].entry = "Speck::decrypt" /\ call[b].input = KatCiphertext

(* C4: a call through the ECB interface returns what the raw method of   *)
(* the same name returns on the same instance and block; the trait       *)
(* method forwards exactly once and hands back the value it received     *)
ECBEquivalent ==
    /\ \A a, b \in DOMAIN call :
          (/\ Done(a) /\ Done(b)
           /\ call[a].inst = call[b].inst
           /\ call[a].input = call[b].input
           /\ \/ call[a].entry = "ECB::encrypt" /\ call[b].entry = "Speck::encrypt"
              \/ call[a].entry = "ECB::decrypt" /\ call[b].entry = "Speck::decrypt")
              => call[a].result = call[b].result
    /\ \A c \in DOMAIN call :
          call[c].pc \in {"loop", "ecb", "done"} =>
              call[c].forwards = IF Raw(c) THEN 0 ELSE 1

ECBEquivalentWitness ==
    \E a, b \in DOMAIN call :
        /\ Done(a) /\ Done(b)
        /\ call[a].input = call[b].input
        /\ call[a].entry = "ECB::decrypt" /\ call[b].entry = "Speck::decrypt"

(* C9: the split gives the high and the low 64 bits of the block and     *)
(* (x << 64) | y of them is the block again; the block returned has the  *)
(* final x as its high and the final y as its low 64 bits                *)
FramingLossless ==
    \A c \in DOMAIN call :
        /\ (call[c].pc = "loop" /\ call[c].i = 0) =>
              /\ call[c].chunk_1 = High64(call[c].input)
              /\ call[c].chunk_2 = Low64(call[c].input)
              /\ bitor(shl128(as_u128(call[c].chunk_1), 64), as_u128(call[c].chunk_2))
                    = call[c].input
        /\ call[c].pc \in {"ecb", "done"} =>
              /\ Len(call[c].result) = 32
              /\ High64(call[c].result) = call[c].chunk_1
              /\ Low64(call[c].result) = call[c].chunk_2

FramingLosslessWitness ==
    \E c \in DOMAIN call :
        /\ Done(c)
        /\ call[c].input = KatCiphertext
        /\ call[c].chunk_1 # call[c].chunk_2
        /\ call[c].chunk_1 # High64(call[c].input)

(* C7: every iteration of encrypt applies round to the previous (x, y)   *)
(* with schedule entry i, i counting up from 0; every iteration of       *)
(* decrypt applies inv_round with schedule entry 31 - i; a call returns  *)
(* after exactly 32 iterations                                           *)
RoundOrder ==
    /\ [][\A c \in DOMAIN call :
             (call[c].pc = "loop" /\ call'[c] # call[c]) =>
                 LET f == call[c]
                     g == call'[c]
                     s == speck[f.inst]
                 IN  \/ /\ f.i = 32
                        /\ g.pc \in {"ecb", "done"}
                        /\ g.i = 32
                     \/ /\ f.i < 32
                        /\ g.pc = "loop"
                        /\ g.i = f.i + 1
                        /\ f.method = "Speck::encrypt" =>
                              <<g.chunk_1, g.chunk_2>>
                                  = round(<<f.chunk_1, f.chunk_2>>, s[f.i + 1])
                        /\ f.method = "Speck::decrypt" =>
                              <<g.chunk_1, g.chunk_2>>
                                  = inv_round(<<f.chunk_1, f.chunk_2>>, s[32 - f.i])]_vars
    /\ [](\A c \in DOMAIN call :
             /\ call[c].pc = "loop" => call[c].i \in 0..32
             /\ call[c].pc \in {"ecb", "done"} => call[c].i = 32)

RoundOrderWitness ==
    \E c \in DOMAIN call :
        /\ Done(c)
        /\ call[c].entry = "Speck::decrypt"
        /\ call[c].i = 32

(* C5: once built, the schedule of the instance never changes, whatever  *)
(* the callers do and however their steps interleave, and two calls of   *)
(* the same method on the same block return the same block               *)
ScheduleFrozen ==
    /\ [][\A inst \in Insts : Built(inst) => speck'[inst] = speck[inst]]_vars
    /\ [](\A inst \in Insts : Built(inst) => Len(speck[inst]) = 32)
    /\ [](\A a, b \in DOMAIN call :
             (/\ Done(a) /\ Done(b)
              /\ call[a].inst = call[b].inst
              /\ call[a].method = call[b].method
              /\ call[a].input = call[b].input)
                 => call[a].result = call[b].result)

ScheduleFrozenWitness ==
    /\ Done(1) /\ Done(2)
    /\ call[1].entry = "Speck::encrypt"
    /\ call[2].entry = "ECB::encrypt"
    /\ call[1].input = call[2].input

====
